---- MODULE Spec2Model ----
(***************************************************************************)
(* lambda-ci: walk the working directory for .function.yaml descriptors,   *)
(* and for each one build the referenced Go file, zip the executable and   *)
(* update the AWS Lambda function (src/lambda-ci.go).                      *)
(*                                                                         *)
(* Strings are sequences of tokens.  The tokens are "/", the marker        *)
(* ".function.yaml", ".zip" and single letters, so that substring search   *)
(* and replacement on the token sequence coincide with the byte-level      *)
(* operations of package strings for the strings that occur here.          *)
(***************************************************************************)
EXTENDS Integers, Sequences, FiniteSets, TLC

VARIABLES pc, fs, files, i, config, defers, remote, calls, log, parsed

vars == <<pc, fs, files, i, config, defers, remote, calls, log, parsed>>

(* ------------------------------- bounds -------------------------------- *)

\* number of entries below the working directory
MaxEntries == 4
\* depth of the tree below the working directory
MaxDepth == 2

(* ------------------------------- strings ------------------------------- *)

SEP == "/"
MARKER == ".function.yaml"
ZIPEXT == ".zip"

\* the nil *string of an SDK input whose field is not set
Nil == <<"nil">>

\* the names entries of the tree may have: "a", ".function.yaml", ".function.yamla"
SegNames == {<<"a">>, <<MARKER>>, <<MARKER, "a">>}

\* the values of the descriptor's name field
FuncNames == {<<"f">>, <<"g">>}

\* the values of the descriptor's fileName field
FileNames == {<<"h", ".go">>}

\* handler names the platform may report: a function's own name, or another one
Handlers == FuncNames \cup {<<"m">>}

\* os.Getwd(): the working directory
CurrentDir == <<SEP, "r">>

\* byte order of the tokens' first bytes: '.' (46) < '/' (47) < letters
TokRank(t) ==
  CASE t = MARKER -> 1
    [] t = ZIPEXT -> 1
    [] t = ".go"  -> 1
    [] t = SEP    -> 2
    [] t = "a"    -> 3
    [] t = "f"    -> 4
    [] t = "g"    -> 5
    [] t = "h"    -> 6
    [] t = "m"    -> 7
    [] OTHER      -> 8

\* lexical order of two names, as sort.Strings orders the names of a directory
RECURSIVE NameLess(_, _)
NameLess(s, t) ==
  IF s = <<>> THEN t # <<>>
  ELSE IF t = <<>> THEN FALSE
  ELSE IF Head(s) = Head(t) THEN NameLess(Tail(s), Tail(t))
  ELSE TokRank(Head(s)) < TokRank(Head(t))

\* fmt.Sprintf("%s/%s", a, b) and filepath.Join(a, b) for clean a, b
Join(a, b) == a \o <<SEP>> \o b

\* the positions at which old occurs in s
Occurrences(s, old) ==
  {k \in 1..(Len(s) - Len(old) + 1) : SubSeq(s, k, k + Len(old) - 1) = old}

\* strings.Replace(s, old, new, 1): the first occurrence of old replaced
ReplaceFirst(s, old, new) ==
  IF Occurrences(s, old) = {} THEN s
  ELSE LET k == CHOOSE x \in Occurrences(s, old) :
                  \A y \in Occurrences(s, old) : x <= y
       IN SubSeq(s, 1, k - 1) \o new \o SubSeq(s, k + Len(old), Len(s))

\* positions of the separators of a path
Seps(p) == {k \in 1..Len(p) : p[k] = SEP}

LastSep(p) == CHOOSE k \in Seps(p) : \A j \in Seps(p) : j <= k

\* os.FileInfo.Name(): the last element of the path
BaseName(p) == SubSeq(p, LastSep(p) + 1, Len(p))

\* the directory an entry lies in
Parent(p) == SubSeq(p, 1, LastSep(p) - 1)

\* number of path elements below the working directory
Depth(p) == Cardinality(Seps(p)) - 1

(* ----------------------------- file system ----------------------------- *)

\* fs maps each existing path to what is there:
\*   "dir"          a directory
\*   "file"         a regular file of the source tree
\*   "exe"          a built executable
\*   "zipPartial"   an archive file that is no complete single-entry archive
\*   "zipComplete"  a complete single-entry archive
Put(f, p, k) == [q \in DOMAIN f \cup {p} |-> IF q = p THEN k ELSE f[q]]

Del(f, p) == [q \in DOMAIN f \ {p} |-> f[q]]

Exists(f, p) == p \in DOMAIN f

\* the entries that can be added to tree t: a new name in an existing directory
Addable(t) ==
  {e \in [path : {Join(d, n) : d \in {q \in DOMAIN t : t[q] = "dir"}, n \in SegNames},
          kind : {"dir", "file"}] :
     e.path \notin DOMAIN t /\ Depth(e.path) <= MaxDepth}

\* the trees with at most n entries below the working directory
RECURSIVE TreesUpTo(_)
TreesUpTo(n) ==
  IF n = 0 THEN {[q \in {CurrentDir} |-> "dir"]}
  ELSE LET prev == TreesUpTo(n - 1)
       IN prev \cup UNION {{Put(t, e.path, e.kind) : e \in Addable(t)} : t \in prev}

Trees == TreesUpTo(MaxEntries)

(* ------------------------------ discovery ------------------------------ *)

\* the entries of directory d
Children(f, d) == {p \in DOMAIN f : p # CurrentDir /\ Len(p) > Len(d) /\ Parent(p) = d}

\* the paths of set S in the lexical order of their names
RECURSIVE Sorted(_)
Sorted(S) ==
  IF S = {} THEN <<>>
  ELSE LET m == CHOOSE p \in S :
                  \A q \in S : q = p \/ NameLess(BaseName(p), BaseName(q))
       IN <<m>> \o Sorted(S \ {m})

\* the callback findFunctionConfigs hands to filepath.Walk, for an entry met
\* without error: the path is appended when the entry's name is the marker
WalkFn(path) == IF BaseName(path) = <<MARKER>> THEN <<path>> ELSE <<>>

\* filepath.Walk: the entry itself, then, for a directory, its entries in
\* lexical order
RECURSIVE Walk(_, _)
RECURSIVE WalkAll(_, _)
Walk(f, path) ==
  WalkFn(path) \o (IF f[path] = "dir" THEN WalkAll(f, Sorted(Children(f, path)))
                   ELSE <<>>)
WalkAll(f, ps) ==
  IF ps = <<>> THEN <<>> ELSE Walk(f, Head(ps)) \o WalkAll(f, Tail(ps))

\* findFunctionConfigs(root): (files, err); walkErr says that Walk met an error
findFunctionConfigs(f, root, walkErr) ==
  IF walkErr THEN [files |-> <<>>, err |-> TRUE]
  ELSE [files |-> Walk(f, root), err |-> FALSE]

(* ------------------------------- records ------------------------------- *)

NoConfig == [Name |-> Nil, FileName |-> Nil, Path |-> Nil]

getBuildOutputPath(conf) == Join(conf.Path, conf.Name)

getZipOutputPath(conf) == Join(conf.Path, conf.Name) \o <<ZIPEXT>>

getFullFilePath(conf) == Join(conf.Path, conf.FileName)

\* parseFunctionConfig(path) for a descriptor that decodes to (name, fileName)
parseFunctionConfig(path, name, fileName) ==
  [Name |-> name, FileName |-> fileName,
   Path |-> ReplaceFirst(path, <<SEP, MARKER>>, <<>>)]

\* a logger call that returns: logrus.Errorf in the place of logrus.Fatalf
FatalfReturns(resume) == resume

\* logrus.Fatal / Fatalf: os.Exit(1); control never reaches resume, the
\* statement after the call, and no deferred call runs
Fatalf(resume) == "exited"

Event(idx, stage, ok) == [idx |-> idx, stage |-> stage, ok |-> ok]

(* -------------------------------- state -------------------------------- *)

Init ==
  /\ pc = "getwd"
  /\ fs \in Trees
  /\ files = <<>>
  /\ i = 0
  /\ config = NoConfig
  /\ defers = <<>>
  /\ remote \in [FuncNames -> [code : {0}, zip : {"none"}, handler : Handlers]]
  /\ calls = <<>>
  /\ log = <<>>
  /\ parsed = <<>>

\* main, lines 25-28
Getwd ==
  /\ pc = "getwd"
  /\ \E ok \in BOOLEAN :
       /\ pc' = IF ok THEN "discover" ELSE Fatalf("discover")
       /\ log' = Append(log, Event(0, "getwd", ok))
  /\ UNCHANGED <<fs, files, i, config, defers, remote, calls, parsed>>

\* main, lines 30-33
Discover ==
  /\ pc = "discover"
  /\ \E walkErr \in BOOLEAN :
       LET r == findFunctionConfigs(fs, CurrentDir, walkErr)
       IN /\ files' = r.files
          /\ pc' = IF r.err THEN Fatalf("loop") ELSE "loop"
          /\ log' = Append(log, Event(0, "discover", ~r.err))
  /\ UNCHANGED <<fs, i, config, defers, remote, calls, parsed>>

\* the loop of line 35 ending one element early
LoopNextSkipsLast ==
  /\ pc = "loop" \/ (pc = "return" /\ defers = <<>>)
  /\ IF i + 1 < Len(files)
       THEN /\ i' = i + 1
            /\ pc' = "parse"
       ELSE /\ i' = i
            /\ pc' = "done"
  /\ UNCHANGED <<fs, files, config, defers, remote, calls, log, parsed>>

\* main, line 35: the next element of files, or the end of main
LoopNext ==
  /\ pc = "loop" \/ (pc = "return" /\ defers = <<>>)
  /\ IF i < Len(files)
       THEN /\ i' = i + 1
            /\ pc' = "parse"
       ELSE /\ i' = i
            /\ pc' = "done"
  /\ UNCHANGED <<fs, files, config, defers, remote, calls, log, parsed>>

\* main, lines 37-40: parseFunctionConfig(file).  ioutil.ReadFile fails on a
\* directory; otherwise reading and decoding succeed or fail, and a
\* descriptor that decodes holds some name and fileName
Parse ==
  /\ pc = "parse"
  /\ \E ok \in BOOLEAN, name \in FuncNames, fileName \in FileNames :
       /\ ok => fs[files[i]] # "dir"
       /\ IF ok
            THEN /\ config' = parseFunctionConfig(files[i], name, fileName)
                 /\ parsed' = Append(parsed, config')
                 /\ pc' = "build"
            ELSE /\ pc' = Fatalf("build")
                 /\ UNCHANGED <<config, parsed>>
       /\ log' = Append(log, Event(i, "parse", ok))
  /\ defers' = <<>>
  /\ UNCHANGED <<fs, files, i, remote, calls>>

\* lines 42-45 with the error of config.build() dropped
BuildIgnoresError ==
  /\ pc = "build"
  /\ \E ok \in BOOLEAN :
       /\ fs' = IF ok THEN Put(fs, getBuildOutputPath(config), "exe") ELSE fs
       /\ pc' = "zip"
       /\ log' = Append(log, Event(i, "build", ok))
  /\ defers' = Append(defers, "mustDeleteBuildFile")
  /\ UNCHANGED <<files, i, config, remote, calls, parsed>>

\* lines 42-45 without the defer of line 45
BuildWithoutDefer ==
  /\ pc = "build"
  /\ \E ok \in BOOLEAN :
       /\ IF ok
            THEN /\ fs' = Put(fs, getBuildOutputPath(config), "exe")
                 /\ pc' = "zip"
            ELSE /\ fs' = fs
                 /\ pc' = Fatalf("zip")
       /\ log' = Append(log, Event(i, "build", ok))
  /\ defers' = defers
  /\ UNCHANGED <<files, i, config, remote, calls, parsed>>

\* main, lines 42-45: config.build(), go build -o <output> <source>, and the
\* deferred mustDeleteBuildFile
Build ==
  /\ pc = "build"
  /\ \E ok \in BOOLEAN :
       /\ IF ok
            THEN /\ fs' = Put(fs, getBuildOutputPath(config), "exe")
                 /\ pc' = "zip"
            ELSE /\ fs' = fs
                 /\ pc' = Fatalf("zip")
       /\ log' = Append(log, Event(i, "build", ok))
  /\ defers' = IF pc' = "zip" THEN Append(defers, "mustDeleteBuildFile") ELSE defers
  /\ UNCHANGED <<files, i, config, remote, calls, parsed>>

\* the ways a call of zipBuild can go: os.Create fails; a later step (Open,
\* Stat, FileInfoHeader, CreateHeader, Copy) fails; every step succeeds
ZipOutcomes == {"createFails", "writeFails", "written"}

\* zipBuild: (file system afterwards, err).  The deferred writer.Close()
\* runs on every return after os.Create and its result is discarded.
zipBuild(f, conf, outcome, closeOk) ==
  CASE outcome = "createFails" ->
         [fs |-> f, err |-> TRUE]
    [] outcome = "writeFails" ->
         [fs |-> Put(f, getZipOutputPath(conf), "zipPartial"), err |-> TRUE]
    [] outcome = "written" ->
         [fs |-> Put(f, getZipOutputPath(conf),
                     IF closeOk THEN "zipComplete" ELSE "zipPartial"),
          err |-> FALSE]

\* main, lines 47-50: config.zipBuild() and the deferred mustDeleteZipFile.
\* os.Open fails when the build output does not exist.
ZipBuild ==
  /\ pc = "zip"
  /\ \E outcome \in ZipOutcomes, closeOk \in BOOLEAN :
       LET r == zipBuild(fs, config, outcome, closeOk)
       IN /\ outcome = "written" => Exists(fs, getBuildOutputPath(config))
          /\ fs' = r.fs
          /\ pc' = IF r.err THEN Fatalf("deploy") ELSE "deploy"
          /\ log' = Append(log, Event(i, "zip", ~r.err))
  /\ defers' = IF pc' = "deploy" THEN Append(defers, "mustDeleteZipFile") ELSE defers
  /\ UNCHANGED <<files, i, config, remote, calls, parsed>>

\* the comparison of line 161 inverted: == 0 in the place of != 0
HandlerDiffersInverted(reported, name) == reported = name

\* line 161: strings.Compare(*lambdaInfo.Handler, conf.Name) != 0
HandlerDiffers(reported, name) == reported # name

\* lines 150-153: the input of UpdateFunctionCode
UpdateFunctionCodeInput(conf, data) ==
  [op |-> "UpdateFunctionCode", FunctionName |-> conf.Name, Handler |-> Nil,
   ZipFile |-> data]

\* lines 162-164: the input of UpdateFunctionConfiguration; only Handler is set
UpdateFunctionConfigurationInput(conf) ==
  [op |-> "UpdateFunctionConfiguration", FunctionName |-> Nil,
   Handler |-> conf.Name, ZipFile |-> "none"]

\* a call as it is recorded: its input, the descriptor it was made for, the
\* name that descriptor configures, whether it succeeded, the handler reported
Call(in, idx, conf, ok, reported) ==
  [in |-> in, idx |-> idx, name |-> conf.Name, ok |-> ok, reported |-> reported]

\* the platform after a successful call
Applied(r, in, idx) ==
  IF in.FunctionName \notin DOMAIN r THEN r
  ELSE IF in.op = "UpdateFunctionCode"
         THEN [r EXCEPT ![in.FunctionName].code = idx, ![in.FunctionName].zip = in.ZipFile]
         ELSE [r EXCEPT ![in.FunctionName].handler = in.Handler]

\* updateLambda: (calls made, platform afterwards, err), given whether the
\* archive could be read and whether each remote call succeeds
updateLambda(f, conf, idx, r, readOk, codeOk, confOk) ==
  IF ~readOk THEN [calls |-> <<>>, remote |-> r, err |-> TRUE]
  ELSE
    LET codeIn   == UpdateFunctionCodeInput(conf, f[getZipOutputPath(conf)])
        reported == IF codeOk THEN r[conf.Name].handler ELSE Nil
        codeCall == Call(codeIn, idx, conf, codeOk, reported)
        r1       == Applied(r, codeIn, idx)
        confIn   == UpdateFunctionConfigurationInput(conf)
        confCall == Call(confIn, idx, conf, confOk, Nil)
    IN IF ~codeOk THEN [calls |-> <<codeCall>>, remote |-> r, err |-> TRUE]
       ELSE IF HandlerDiffers(reported, conf.Name)
         THEN [calls  |-> <<codeCall, confCall>>,
               remote |-> IF confOk THEN Applied(r1, confIn, idx) ELSE r1,
               err    |-> ~confOk]
         ELSE [calls |-> <<codeCall>>, remote |-> r1, err |-> FALSE]

\* main, lines 52-54: config.updateLambda().  ioutil.ReadFile fails when the
\* archive does not exist; the platform knows the functions of remote only.
UpdateLambda ==
  /\ pc = "deploy"
  /\ \E readOk, codeOk, confOk \in BOOLEAN :
       LET r == updateLambda(fs, config, i, remote, readOk, codeOk, confOk)
       IN /\ readOk => Exists(fs, getZipOutputPath(config))
          /\ codeOk => readOk /\ config.Name \in DOMAIN remote
          /\ calls' = calls \o r.calls
          /\ remote' = r.remote
          /\ pc' = IF r.err THEN Fatalf("return") ELSE "return"
          /\ log' = Append(log, Event(i, "deploy", ~r.err))
  /\ UNCHANGED <<fs, files, i, config, defers, parsed>>

\* os.Remove(path): fails when nothing is at path, and may fail otherwise
Remove(f, path, ok) == IF ok /\ Exists(f, path) THEN Del(f, path) ELSE f

\* the deferred call on top of the stack runs when the closure returns
Top(s) == s[Len(s)]
Pop(s) == SubSeq(s, 1, Len(s) - 1)

\* mustDeleteZipFile, deferred at line 50
mustDeleteZipFile ==
  /\ pc = "return"
  /\ defers # <<>> /\ Top(defers) = "mustDeleteZipFile"
  /\ \E ok \in BOOLEAN :
       /\ ok => Exists(fs, getZipOutputPath(config))
       /\ fs' = Remove(fs, getZipOutputPath(config), ok)
       /\ pc' = IF ok THEN "return" ELSE Fatalf("return")
       /\ log' = Append(log, Event(i, "delZip", ok))
  /\ defers' = Pop(defers)
  /\ UNCHANGED <<files, i, config, remote, calls, parsed>>

\* mustDeleteBuildFile, deferred at line 45
mustDeleteBuildFile ==
  /\ pc = "return"
  /\ defers # <<>> /\ Top(defers) = "mustDeleteBuildFile"
  /\ \E ok \in BOOLEAN :
       /\ ok => Exists(fs, getBuildOutputPath(config))
       /\ fs' = Remove(fs, getBuildOutputPath(config), ok)
       /\ pc' = IF ok THEN "return" ELSE Fatalf("return")
       /\ log' = Append(log, Event(i, "delBuild", ok))
  /\ defers' = Pop(defers)
  /\ UNCHANGED <<files, i, config, remote, calls, parsed>>

Next ==
  \/ Getwd
  \/ Discover
  \/ LoopNext
  \/ Parse
  \/ Build
  \/ ZipBuild
  \/ UpdateLambda
  \/ mustDeleteZipFile
  \/ mustDeleteBuildFile

Spec == Init /\ [][Next]_vars

(* ----------------------------- properties ------------------------------ *)

Terminal == pc \in {"done", "exited"}

\* the temporary artifacts that exist
TempArtifacts == {p \in DOMAIN fs : fs[p] \in {"exe", "zipPartial", "zipComplete"}}

IsCode(c) == c.in.op = "UpdateFunctionCode"
IsConf(c) == c.in.op = "UpdateFunctionConfiguration"

LastEvent == log[Len(log)]

AllOk == \A k \in DOMAIN log : log[k].ok

\* the events of descriptor idx, in order
EventsOf(idx) == SelectSeq(log, LAMBDA e : e.idx = idx)

StageOrder == <<"parse", "build", "zip", "deploy", "delZip", "delBuild">>

\* C1: in every terminal state of the process no temporary artifact (build
\* output or archive) created by the run still exists
C1_NoArtifactAtExit == Terminal => TempArtifacts = {}

\* C2: a failed stage is the last thing the process does: it has terminated,
\* nothing was executed after the failure, no remote call was made for a
\* later descriptor, and each function still holds the code of the last
\* successful code update made for it
C2_FailFast ==
  /\ \A k \in DOMAIN log : ~log[k].ok => k = Len(log) /\ pc = "exited"
  /\ pc = "exited" =>
       /\ log # <<>> /\ ~LastEvent.ok /\ LastEvent.idx = i
       /\ \A k \in DOMAIN log : log[k].idx <= i
       /\ \A k \in DOMAIN calls : calls[k].idx <= i
       /\ Len(parsed) <= i
  /\ \A n \in DOMAIN remote :
       LET done == {k \in DOMAIN calls :
                      IsCode(calls[k]) /\ calls[k].ok /\ calls[k].in.FunctionName = n}
       IN IF done = {} THEN remote[n].code = 0
          ELSE remote[n].code = calls[CHOOSE k \in done : \A j \in done : j <= k].idx

\* a deploy failed for the first of two descriptors and the process has ended
C2_Witness ==
  /\ pc = "exited" /\ i = 1 /\ Len(files) = 2
  /\ LastEvent = Event(1, "deploy", FALSE)
  /\ Len(calls) = 2

\* C3: after a successful code update, no configuration update is issued when
\* the reported handler equals the configured name, exactly one with the
\* configured name as handler when it differs; none after a failed code update
C3_HandlerCorrection ==
  /\ \A k \in DOMAIN calls : IsCode(calls[k]) =>
       LET c == calls[k]
           confs == {j \in DOMAIN calls : IsConf(calls[j]) /\ calls[j].idx = c.idx}
       IN /\ ~c.ok => confs = {}
          /\ c.ok /\ c.reported = c.name => confs = {}
          /\ c.ok /\ c.reported # c.name =>
               /\ confs = {k + 1}
               /\ calls[k + 1].in.Handler = c.name
  /\ \A j \in DOMAIN calls : IsConf(calls[j]) =>
       /\ j > 1 /\ IsCode(calls[j - 1]) /\ calls[j - 1].ok
       /\ calls[j - 1].idx = calls[j].idx

\* the platform reported another handler and the configuration was updated
C3_Witness ==
  \E k \in DOMAIN calls :
    /\ IsCode(calls[k]) /\ calls[k].ok /\ calls[k].reported # calls[k].name
    /\ k + 1 \in DOMAIN calls /\ IsConf(calls[k + 1]) /\ calls[k + 1].ok

\* C4: after a failed build the process has terminated, the descriptor's
\* archive does not exist and no remote call was made for it; packaging and
\* deploy are reached only after a build that returned without error
C4_BuildGate ==
  /\ \A k \in DOMAIN log : log[k].stage = "build" /\ ~log[k].ok =>
       /\ pc = "exited" /\ k = Len(log)
       /\ ~Exists(fs, getZipOutputPath(config))
       /\ \A j \in DOMAIN calls : calls[j].idx # log[k].idx
  /\ \A k \in DOMAIN log : log[k].stage \in {"zip", "deploy"} =>
       \E j \in 1..(k - 1) : log[j] = Event(log[k].idx, "build", TRUE)
  /\ pc \in {"zip", "deploy"} =>
       \E j \in DOMAIN log : log[j] = Event(i, "build", TRUE)
  /\ \A j \in DOMAIN calls :
       \E k \in DOMAIN log : log[k] = Event(calls[j].idx, "build", TRUE)

\* the compiler failed for the second descriptor, after the first was deployed
C4_Witness ==
  /\ pc = "exited" /\ i = 2
  /\ LastEvent = Event(2, "build", FALSE)

\* C5: the stages of every descriptor are a prefix of parse, build, package,
\* deploy, delete archive, delete build output, each at most once; the events
\* of different descriptors do not interleave; a descriptor is parsed only
\* after both artifacts of the one before it were deleted, and the artifacts
\* that exist are those of the descriptor being processed
C5_Sequential ==
  /\ \A idx \in 1..Len(files) :
       LET ev == EventsOf(idx)
       IN /\ Len(ev) <= Len(StageOrder)
          /\ \A k \in DOMAIN ev : ev[k].stage = StageOrder[k]
  /\ \A k \in 1..(Len(log) - 1) : log[k].idx <= log[k + 1].idx
  /\ \A k \in DOMAIN log : log[k].stage = "parse" /\ log[k].idx > 1 =>
       /\ k > 2
       /\ log[k - 1] = Event(log[k].idx - 1, "delBuild", TRUE)
       /\ log[k - 2] = Event(log[k].idx - 1, "delZip", TRUE)
  /\ pc \in {"loop", "parse", "build"} => TempArtifacts = {}
  /\ TempArtifacts \subseteq {getBuildOutputPath(config), getZipOutputPath(config)}

\* the second descriptor is being packaged after the first was cleaned up
C5_Witness ==
  /\ pc = "zip" /\ i = 2
  /\ Len(EventsOf(1)) = Len(StageOrder)

\* the code-update calls, in the order they were made
CodeCalls == SelectSeq(calls, IsCode)

\* the steps of main after discovery
Pipeline ==
  \/ LoopNext \/ Parse \/ Build \/ ZipBuild \/ UpdateLambda
  \/ mustDeleteZipFile \/ mustDeleteBuildFile

\* a step of main is possible (Getwd and Discover are possible whenever
\* control is at them)
CanStep == pc \in {"getwd", "discover"} \/ ENABLED Pipeline

\* C6: while every step succeeds the run does not stop before the end of
\* main, and at the end exactly one code update was made for each discovered
\* descriptor, with its name, in discovery order, and no artifact exists
C6_AllSucceed ==
  AllOk =>
    /\ pc # "exited"
    /\ pc = "done" \/ CanStep
    /\ pc = "done" =>
         /\ Len(CodeCalls) = Len(files)
         /\ Len(parsed) = Len(files)
         /\ \A k \in DOMAIN CodeCalls :
              /\ CodeCalls[k].idx = k
              /\ CodeCalls[k].ok
              /\ CodeCalls[k].in.FunctionName = parsed[k].Name
         /\ TempArtifacts = {}
         /\ \A k \in DOMAIN parsed :
              /\ ~Exists(fs, Join(Parent(files[k]), parsed[k].Name))
              /\ ~Exists(fs, Join(Parent(files[k]), parsed[k].Name) \o <<ZIPEXT>>)

\* a run over two descriptors ended normally
C6_Witness == pc = "done" /\ Len(files) = 2 /\ Len(CodeCalls) = 2

\* the marker files of the tree
MarkerFiles == {p \in DOMAIN fs : fs[p] = "file" /\ BaseName(p) = <<MARKER>>}

\* C7: a walk without error returns exactly the paths of the files named
\* .function.yaml, each once, and no path of a directory; a walk that met an
\* error returns no path
C7_DiscoveryExact ==
  /\ (\E k \in DOMAIN log : log[k] = Event(0, "discover", TRUE)) =>
       /\ {files[k] : k \in DOMAIN files} = MarkerFiles
       /\ Len(files) = Cardinality(MarkerFiles)
  /\ (\E k \in DOMAIN log : log[k] = Event(0, "discover", FALSE)) =>
       files = <<>>

\* C8: the directory of a parsed record is the directory that contains the
\* descriptor, and the build output and the source lie in it
C8_DirectoryOfDescriptor ==
  \A k \in DOMAIN parsed :
    /\ parsed[k].Path = Parent(files[k])
    /\ Parent(getBuildOutputPath(parsed[k])) = Parent(files[k])
    /\ Parent(getFullFilePath(parsed[k])) = Parent(files[k])

\* C9: when zipBuild has returned without error the archive is complete, and
\* every archive uploaded is complete
C9_ArchiveComplete ==
  /\ pc = "deploy" => fs[getZipOutputPath(config)] = "zipComplete"
  /\ \A k \in DOMAIN calls : IsCode(calls[k]) => calls[k].in.ZipFile = "zipComplete"

\* C10: every configuration update names the function of the code update
\* that preceded it, the descriptor's name
C10_SameFunction ==
  \A j \in DOMAIN calls : IsConf(calls[j]) =>
    /\ j > 1
    /\ calls[j].in.FunctionName = calls[j - 1].in.FunctionName
    /\ calls[j].in.FunctionName = calls[j].name
====
